---------------------------- MODULE Spec2Model ----------------------------
(***************************************************************************)
(* The RDS decoder of src/grc/rds_decoder.py (class rds_decoder) as a      *)
(* state machine: the differential line decoder, the syndrome engine, the  *)
(* synchronisation state machine of work() and the group assembler of      *)
(* process_block().  Characters are their code points; a dict is a         *)
(* function whose DOMAIN is the set of keys present.                       *)
(***************************************************************************)
EXTENDS Integers, Sequences, FiniteSets, TLC

VARIABLES
    state,              \* self.state
    presync_bit_count,  \* self.presync_bit_count
    bit_buffer,         \* self.bit_buffer
    last_block_id,      \* self.last_block_id
    group_data,         \* self.group_data
    ps_name,            \* self.ps_name
    pi_code,            \* self.pi_code
    pi_code_counts,     \* self.pi_code_counts
    last_bit,           \* self.last_bit
    bit_counter,        \* self.bit_counter
    error_counter,      \* self.error_counter
    events,             \* what the decoder has emitted, oldest first
    pending,            \* symbols produced upstream and not yet handed to work()
    fed,                \* symbols handed to work() so far (kept by the logged specifications)
    tx_last,            \* the upstream differential encoder's last raw symbol
    sent,               \* number of blocks the upstream has produced
    block,              \* the latest block produced upstream or handed to process_block
    bad_run,            \* corrupted blocks the upstream has produced in a row
    handled             \* blocks handed to process_block directly (kept by the logged specifications)

decoder_vars == <<state, presync_bit_count, bit_buffer, last_block_id, group_data,
                  ps_name, pi_code, pi_code_counts, last_bit, bit_counter,
                  error_counter, events>>
vars == <<state, presync_bit_count, bit_buffer, last_block_id, group_data,
          ps_name, pi_code, pi_code_counts, last_bit, bit_counter,
          error_counter, events, pending, fed, tx_last, sent, block, bad_run,
          handled>>

----------------------------------------------------------------------------
(* Integer bit operations, as Python's on non-negative ints. *)

Pow2(n) == 2 ^ n

\* v >> n
Shr(v, n) == v \div Pow2(n)

\* (v >> n) & 0x01
BitAt(v, n) == (v \div Pow2(n)) % 2

\* raw_bit & 0x01 (two's complement for a negative byte)
LowBit(v) == v % 2

RECURSIVE Xor(_, _)
Xor(a, b) ==
    IF a = 0 THEN b
    ELSE IF b = 0 THEN a
    ELSE (((a % 2) + (b % 2)) % 2) + 2 * Xor(a \div 2, b \div 2)

----------------------------------------------------------------------------
(* Constants of __init__. *)

OFFSET_A  == 252     \* 0b0011111100
OFFSET_B  == 408     \* 0b0110011000
OFFSET_C  == 360     \* 0b0101101000
OFFSET_Cp == 848     \* 0b1101010000
OFFSET_D  == 436     \* 0b0110110100

STATE_SEARCH    == 0
STATE_PRESYNC_B == 1
STATE_PRESYNC_C == 2
STATE_SYNCED    == 3

MAX_ERRORS == 5

POLY     == 441        \* 0x1B9
REG_MASK == 1023       \* 0x3FF
BUF_MASK == 67108863   \* 0x3FFFFFF
SPACE    == 32         \* ' '

\* block_id values handed to process_block
ID_A  == 0
ID_B  == 1
ID_C  == 2
ID_Cp == 3
ID_D  == 4

----------------------------------------------------------------------------
(* syndrome(m): the 26 bits of m, most significant first, through the      *)
(* 10-bit register.                                                        *)

SyndromeStep(reg, bit) ==
    LET reg_msb == BitAt(reg, 9)
        shifted == (reg * 2) % (REG_MASK + 1)
    IN  IF bit # reg_msb THEN Xor(shifted, POLY) ELSE shifted

\* the loop body for the bit positions hi down to lo, in that order: the
\* lower half of the range run from upper, the register the upper half
\* leaves
RECURSIVE SyndromeFrom(_, _, _, _)
SyndromeFrom(m, hi, lo, reg) ==
    IF hi < lo THEN reg
    ELSE IF hi = lo THEN SyndromeStep(reg, BitAt(m, hi))
    ELSE LET mid == (hi + lo + 1) \div 2
         IN  CHOOSE r \in {SyndromeFrom(m, mid - 1, lo, upper) :
                             upper \in {SyndromeFrom(m, hi, mid, reg)}} : TRUE

syndrome(m) == SyndromeFrom(m, 25, 0, 0)

----------------------------------------------------------------------------
(* The decoder object as a record, one field per attribute. *)

Self ==
    [state |-> state, presync_bit_count |-> presync_bit_count,
     bit_buffer |-> bit_buffer, last_block_id |-> last_block_id,
     group_data |-> group_data, ps_name |-> ps_name, pi_code |-> pi_code,
     pi_code_counts |-> pi_code_counts, last_bit |-> last_bit,
     bit_counter |-> bit_counter, error_counter |-> error_counter,
     events |-> events]

\* d[k] = v on a dict
DictSet(d, k, v) == [x \in (DOMAIN d) \cup {k} |-> IF x = k THEN v ELSE d[x]]

EmptyDict == [x \in {} |-> 0]

\* the object __init__ builds
NewDecoder ==
    [state |-> STATE_SEARCH, presync_bit_count |-> 0, bit_buffer |-> 0,
     last_block_id |-> -1, group_data |-> EmptyDict,
     ps_name |-> [i \in 1..8 |-> SPACE], pi_code |-> 0,
     pi_code_counts |-> EmptyDict, last_bit |-> 0, bit_counter |-> 0,
     error_counter |-> 0, events |-> <<>>]

PIConfirmed(code) == [type |-> "PIConfirmed", code |-> code]
StationNameUpdated(text) == [type |-> "StationNameUpdated", text |-> text]

----------------------------------------------------------------------------
(* process_block(block_id, data_16) *)

\* mutant: commits one observation early
ProcessA_CommitsAtTwo(d, data_16) ==
    LET prior  == IF data_16 \in DOMAIN d.pi_code_counts
                  THEN d.pi_code_counts[data_16] ELSE 0
        counts == DictSet(d.pi_code_counts, data_16, prior + 1)
        commit == counts[data_16] > 1
        change == commit /\ d.pi_code # data_16
    IN  [d EXCEPT
           !.pi_code_counts = IF change THEN DictSet(EmptyDict, data_16, 10) ELSE counts,
           !.events     = IF change THEN Append(d.events, PIConfirmed(data_16)) ELSE d.events,
           !.pi_code    = IF commit THEN data_16 ELSE d.pi_code,
           !.group_data = DictSet(d.group_data, "PI", data_16)]

\* block A: the PI debounce
ProcessA(d, data_16) ==
    LET prior  == IF data_16 \in DOMAIN d.pi_code_counts
                  THEN d.pi_code_counts[data_16] ELSE 0
        counts == DictSet(d.pi_code_counts, data_16, prior + 1)
        commit == counts[data_16] > 2
        change == commit /\ d.pi_code # data_16
    IN  [d EXCEPT
           !.pi_code_counts = IF change THEN DictSet(EmptyDict, data_16, 10) ELSE counts,
           !.events     = IF change THEN Append(d.events, PIConfirmed(data_16)) ELSE d.events,
           !.pi_code    = IF commit THEN data_16 ELSE d.pi_code,
           !.group_data = DictSet(d.group_data, "PI", data_16)]

\* block B: group type and raw value
ProcessB(d, data_16) ==
    LET group_type_int == Shr(data_16, 11) % 32
    IN  [d EXCEPT
           !.group_data = DictSet(DictSet(d.group_data, "type", group_type_int),
                                  "B", data_16)]

\* mutant: no lower bound, control characters pass
Printable_NoLowerBound(c) == c <= 126

Printable(c) == 32 <= c /\ c <= 126

\* mutant: the event is emitted at every segment
ProcessD_EmitsAlways(d, data_16) ==
    IF "type" \notin DOMAIN d.group_data THEN d
    ELSE
      LET gtype   == d.group_data["type"]
          b_block == IF "B" \in DOMAIN d.group_data THEN d.group_data["B"] ELSE 0
          segment_addr == b_block % 4
          char1 == Shr(data_16, 8) % 256
          char2 == data_16 % 256
          idx   == segment_addr * 2
          name1 == IF Printable(char1)
                   THEN [d.ps_name EXCEPT ![idx + 1] = char1] ELSE d.ps_name
          name2 == IF Printable(char2)
                   THEN [name1 EXCEPT ![idx + 2] = char2] ELSE name1
      IN  IF gtype = 0
          THEN [d EXCEPT
                  !.ps_name = name2,
                  !.events  = Append(d.events, StationNameUpdated(name2))]
          ELSE d

\* block D: the station name of a group of type 0
ProcessD(d, data_16) ==
    IF "type" \notin DOMAIN d.group_data THEN d
    ELSE
      LET gtype   == d.group_data["type"]
          b_block == IF "B" \in DOMAIN d.group_data THEN d.group_data["B"] ELSE 0
          segment_addr == b_block % 4
          char1 == Shr(data_16, 8) % 256
          char2 == data_16 % 256
          idx   == segment_addr * 2
          name1 == IF Printable(char1)
                   THEN [d.ps_name EXCEPT ![idx + 1] = char1] ELSE d.ps_name
          name2 == IF Printable(char2)
                   THEN [name1 EXCEPT ![idx + 2] = char2] ELSE name1
      IN  IF gtype = 0
          THEN [d EXCEPT
                  !.ps_name = name2,
                  !.events  = IF idx = 6
                              THEN Append(d.events, StationNameUpdated(name2))
                              ELSE d.events]
          ELSE d

process_block(d, block_id, data_16) ==
    IF block_id = ID_A THEN ProcessA(d, data_16)
    ELSE IF block_id = ID_B THEN ProcessB(d, data_16)
    ELSE IF block_id = ID_D THEN ProcessD(d, data_16)
    ELSE d

----------------------------------------------------------------------------
(* work(): the body of the loop over the batch, for one raw symbol. *)

\* mutant: the previous symbol is never stored
ShiftIn_NoMemory(d, raw_bit) ==
    LET val         == LowBit(raw_bit)
        decoded_bit == IF val # d.last_bit THEN 1 ELSE 0
    IN  [d EXCEPT !.bit_buffer = ((d.bit_buffer * 2) + decoded_bit) % (BUF_MASK + 1)]

\* differential decoding and the shift into the 26-bit window
ShiftIn(d, raw_bit) ==
    LET val         == LowBit(raw_bit)
        decoded_bit == IF val # d.last_bit THEN 1 ELSE 0
    IN  [d EXCEPT !.last_bit   = val,
                  !.bit_buffer = ((d.bit_buffer * 2) + decoded_bit) % (BUF_MASK + 1)]

Payload(d) == Shr(d.bit_buffer, 10)

\* mutant: the comparison with OFFSET_A inverted
SearchStep_Inverted(d) ==
    IF syndrome(d.bit_buffer) # OFFSET_A
    THEN process_block([d EXCEPT !.state = STATE_PRESYNC_B,
                                 !.presync_bit_count = 0],
                       ID_A, Payload(d))
    ELSE d

SearchStep(d) ==
    IF syndrome(d.bit_buffer) = OFFSET_A
    THEN process_block([d EXCEPT !.state = STATE_PRESYNC_B,
                                 !.presync_bit_count = 0],
                       ID_A, Payload(d))
    ELSE d

\* mutant: the position counter is not reset when B is found
PresyncBStep_NoReset(d) ==
    LET c == [d EXCEPT !.presync_bit_count = d.presync_bit_count + 1]
    IN  IF c.presync_bit_count = 26
        THEN IF syndrome(c.bit_buffer) = OFFSET_B
             THEN process_block([c EXCEPT !.state = STATE_PRESYNC_C,
                                          !.last_block_id = 1],
                                ID_B, Payload(c))
             ELSE [c EXCEPT !.state = STATE_SEARCH]
        ELSE c

PresyncBStep(d) ==
    LET c == [d EXCEPT !.presync_bit_count = d.presync_bit_count + 1]
    IN  IF c.presync_bit_count = 26
        THEN IF syndrome(c.bit_buffer) = OFFSET_B
             THEN [process_block([c EXCEPT !.state = STATE_PRESYNC_C,
                                           !.last_block_id = 1],
                                 ID_B, Payload(c))
                     EXCEPT !.presync_bit_count = 0]
             ELSE [c EXCEPT !.state = STATE_SEARCH]
        ELSE c

\* mutant: locks 26 bits after B whatever the window's syndrome
PresyncCStep_NoCheck(d) ==
    LET c == [d EXCEPT !.presync_bit_count = d.presync_bit_count + 1]
    IN  IF c.presync_bit_count = 26
        THEN [process_block([c EXCEPT !.state = STATE_SYNCED,
                                      !.last_block_id = 2,
                                      !.error_counter = 0],
                            ID_C, Payload(c))
                EXCEPT !.presync_bit_count = 0]
        ELSE c

PresyncCStep(d) ==
    LET c   == [d EXCEPT !.presync_bit_count = d.presync_bit_count + 1]
        syn == syndrome(c.bit_buffer)
    IN  IF c.presync_bit_count = 26
        THEN IF syn = OFFSET_C \/ syn = OFFSET_Cp
             THEN [process_block([c EXCEPT !.state = STATE_SYNCED,
                                           !.last_block_id = 2,
                                           !.error_counter = 0],
                                 ID_C, Payload(c))
                     EXCEPT !.presync_bit_count = 0]
             ELSE [c EXCEPT !.state = STATE_SEARCH]
        ELSE c

\* the identity a syndrome names, -1 for none
OffsetFound(syn) ==
    IF syn = OFFSET_A THEN 0
    ELSE IF syn = OFFSET_B THEN 1
    ELSE IF syn = OFFSET_C THEN 2
    ELSE IF syn = OFFSET_Cp THEN 3
    ELSE IF syn = OFFSET_D THEN 4
    ELSE -1

Expected(d) == (d.last_block_id + 1) % 4

Valid(expected, offset_found) ==
    IF expected = 2 THEN (offset_found = 2 \/ offset_found = 3)
    ELSE offset_found = expected

\* mutant: loss of lock leaves the station name as it was
SyncedStep_KeepsName(d) ==
    LET c == [d EXCEPT !.presync_bit_count = d.presync_bit_count + 1]
    IN  IF c.presync_bit_count = 26
        THEN
          LET r            == [c EXCEPT !.presync_bit_count = 0]
              expected     == Expected(r)
              offset_found == OffsetFound(syndrome(r.bit_buffer))
          IN  IF Valid(expected, offset_found)
              THEN process_block(
                     [r EXCEPT !.error_counter = 0,
                               !.last_block_id = IF offset_found # 3
                                                 THEN offset_found ELSE 2],
                     offset_found, Payload(r))
              ELSE
                LET e == [r EXCEPT !.error_counter = r.error_counter + 1,
                                   !.last_block_id = expected]
                IN  IF e.error_counter >= MAX_ERRORS
                    THEN [e EXCEPT !.state = STATE_SEARCH]
                    ELSE e
        ELSE c

SyncedStep(d) ==
    LET c == [d EXCEPT !.presync_bit_count = d.presync_bit_count + 1]
    IN  IF c.presync_bit_count = 26
        THEN
          LET r            == [c EXCEPT !.presync_bit_count = 0]
              expected     == Expected(r)
              offset_found == OffsetFound(syndrome(r.bit_buffer))
          IN  IF Valid(expected, offset_found)
              THEN process_block(
                     [r EXCEPT !.error_counter = 0,
                               !.last_block_id = IF offset_found # 3
                                                 THEN offset_found ELSE 2],
                     offset_found, Payload(r))
              ELSE
                LET e == [r EXCEPT !.error_counter = r.error_counter + 1,
                                   !.last_block_id = expected]
                IN  IF e.error_counter >= MAX_ERRORS
                    THEN [e EXCEPT !.state = STATE_SEARCH,
                                   !.ps_name = [i \in 1..8 |-> SPACE]]
                    ELSE e
        ELSE c

BitStep(d, raw_bit) ==
    LET b == ShiftIn(d, raw_bit)
    IN  IF b.state = STATE_SEARCH THEN SearchStep(b)
        ELSE IF b.state = STATE_PRESYNC_B THEN PresyncBStep(b)
        ELSE IF b.state = STATE_PRESYNC_C THEN PresyncCStep(b)
        ELSE IF b.state = STATE_SYNCED THEN SyncedStep(b)
        ELSE b

\* the loop body for in0[lo], ..., in0[hi], in that order: the upper half
\* of the range run from lower, the decoder the lower half leaves
RECURSIVE WorkLoop(_, _, _, _)
WorkLoop(d, in0, lo, hi) ==
    IF lo > hi THEN d
    ELSE IF lo = hi THEN BitStep(d, in0[lo])
    ELSE LET mid == (lo + hi) \div 2
         IN  CHOOSE r \in {WorkLoop(lower, in0, mid + 1, hi) :
                             lower \in {WorkLoop(d, in0, lo, mid)}} : TRUE

\* mutant: the previous symbol is a local of the call, 0 at its start
WorkState_LocalLastBit(d, in0) ==
    WorkLoop([d EXCEPT !.bit_counter = d.bit_counter + Len(in0),
                       !.last_bit = 0], in0, 1, Len(in0))

\* the decoder after work([in0], [])
WorkState(d, in0) ==
    WorkLoop([d EXCEPT !.bit_counter = d.bit_counter + Len(in0)], in0, 1,
             Len(in0))

\* the value work() returns
WorkReturn(in0) == Len(in0)

----------------------------------------------------------------------------
(* The upstream: blocks encoded so that the decoder's syndrome() of the    *)
(* 26-bit block is the constant the decoder compares against for the       *)
(* block's identity, sent through a differential encoder.                  *)

MaxBlocks == 4      \* blocks of any identity the upstream produces
MaxBatch  == 2      \* longest batch handed to one work() call

\* the constant work() compares a syndrome against, per block_id
OffsetOf(id) ==
    IF id = ID_A THEN OFFSET_A
    ELSE IF id = ID_B THEN OFFSET_B
    ELSE IF id = ID_C THEN OFFSET_C
    ELSE IF id = ID_Cp THEN OFFSET_Cp
    ELSE OFFSET_D

OffsetConstants == {OFFSET_A, OFFSET_B, OFFSET_C, OFFSET_Cp, OFFSET_D}

\* the 10 check bits w with syndrome(w) = k; syndrome is linear, so the
\* check bits for payload p and constant k are syndrome(p) XOR CheckBase[k]
CheckBase == [k \in OffsetConstants |-> CHOOSE w \in 0..REG_MASK : syndrome(w) = k]

\* the 26-bit block of identity id carrying data_16, as this decoder reads it
Encode(id, data_16) ==
    data_16 * (REG_MASK + 1) + Xor(syndrome(data_16), CheckBase[OffsetOf(id)])

\* a block with its last check bit inverted
Corrupt(word) == IF word % 2 = 0 THEN word + 1 ELSE word - 1

\* a block as the upstream describes it
Block(id, data_16) == [block_id |-> id, data_16 |-> data_16, intact |-> TRUE]
Hit(b) == [b EXCEPT !.intact = FALSE]
NoBlock == [block_id |-> -1, data_16 |-> 0, intact |-> TRUE]

Word(b) ==
    IF b.intact THEN Encode(b.block_id, b.data_16)
    ELSE Corrupt(Encode(b.block_id, b.data_16))

\* the 26 bits of a word, most significant first
WordBits(word) == [i \in 1..26 |-> BitAt(word, 26 - i)]

\* differential encoding of data bits from reference symbol ref
RECURSIVE DiffEncode(_, _)
DiffEncode(bits, ref) ==
    IF bits = <<>> THEN <<>>
    ELSE LET sym == IF Head(bits) # ref THEN 1 ELSE 0
         IN  <<sym>> \o DiffEncode(Tail(bits), sym)

PI_TEST == 18 * 256 + 52     \* 0x1234
B_TEST  == 0 * 2048 + 3      \* group type 0, segment 3
C_TEST  == 0 * 256 + 0
D_TEST  == 70 * 256 + 77     \* "FM"

BlockA  == Block(ID_A, PI_TEST)
BlockB  == Block(ID_B, B_TEST)
BlockC  == Block(ID_C, C_TEST)
BlockCp == Block(ID_Cp, C_TEST)
BlockD  == Block(ID_D, D_TEST)

\* what the upstream may send: each identity, and a corrupted block
Alphabet == {BlockA, BlockB, BlockC, BlockCp, Hit(BlockD)}

Drop(seq, n) == SubSeq(seq, n + 1, Len(seq))

Install(d) ==
    /\ state' = d.state
    /\ presync_bit_count' = d.presync_bit_count
    /\ bit_buffer' = d.bit_buffer
    /\ last_block_id' = d.last_block_id
    /\ group_data' = d.group_data
    /\ ps_name' = d.ps_name
    /\ pi_code' = d.pi_code
    /\ pi_code_counts' = d.pi_code_counts
    /\ last_bit' = d.last_bit
    /\ bit_counter' = d.bit_counter
    /\ error_counter' = d.error_counter
    /\ events' = d.events

\* a freshly constructed decoder
Fresh ==
    /\ state = NewDecoder.state
    /\ presync_bit_count = NewDecoder.presync_bit_count
    /\ bit_buffer = NewDecoder.bit_buffer
    /\ last_block_id = NewDecoder.last_block_id
    /\ group_data = NewDecoder.group_data
    /\ ps_name = NewDecoder.ps_name
    /\ pi_code = NewDecoder.pi_code
    /\ pi_code_counts = NewDecoder.pi_code_counts
    /\ last_bit = NewDecoder.last_bit
    /\ bit_counter = NewDecoder.bit_counter
    /\ error_counter = NewDecoder.error_counter
    /\ events = NewDecoder.events

Init ==
    /\ Fresh
    /\ pending = <<>>
    /\ fed = <<>>
    /\ tx_last = 0
    /\ sent = 0
    /\ block = NoBlock
    /\ bad_run = 0
    /\ handled = <<>>

\* the upstream produces the 26 symbols of block b, sent as word
Send(b, word) ==
    /\ pending = <<>>
    /\ pending' = DiffEncode(WordBits(word), tx_last)
    /\ tx_last' = pending'[26]
    /\ sent' = sent + 1
    /\ block' = b
    /\ bad_run' = IF b.intact THEN 0 ELSE bad_run + 1
    /\ UNCHANGED <<decoder_vars, fed, handled>>

Transmit(b) == Send(b, Word(b))

\* one work() call on the next n pending symbols
Consume(n) ==
    /\ n <= Len(pending)
    /\ LET in0 == SubSeq(pending, 1, n)
       IN  /\ Install(WorkState(Self, in0))
           /\ pending' = Drop(pending, WorkReturn(in0))
    /\ UNCHANGED <<tx_last, sent, block, bad_run, handled>>

Work(n) == Consume(n) /\ UNCHANGED fed

\* the same call, the symbols handed over being recorded
WorkLogged(n) == Consume(n) /\ fed' = fed \o SubSeq(pending, 1, n)

----------------------------------------------------------------------------
(* Any block after any block, every symbol recorded. *)

TransmitAny ==
    /\ sent < MaxBlocks
    /\ \E b \in Alphabet : Transmit(b)

Next ==
    \/ TransmitAny
    \/ \E n \in 0..MaxBatch : WorkLogged(n)

Spec == Init /\ [][Next]_vars

----------------------------------------------------------------------------
(* A broadcast that keeps the group order A, B, C or C', D, each block     *)
(* arriving intact or corrupted.                                           *)

MaxGroupBlocks == 12

SlotChoices(slot) ==
    IF slot = 0 THEN {BlockA, Hit(BlockA)}
    ELSE IF slot = 1 THEN {BlockB, Hit(BlockB)}
    ELSE IF slot = 2 THEN {BlockC, BlockCp, Hit(BlockC)}
    ELSE {BlockD, Hit(BlockD)}

TransmitInOrder ==
    /\ sent < MaxGroupBlocks
    /\ \E b \in SlotChoices(sent % 4) : Transmit(b)

NextBroadcast ==
    \/ TransmitInOrder
    \/ \E n \in 0..MaxBatch : Work(n)

SpecBroadcast == Init /\ [][NextBroadcast]_vars

----------------------------------------------------------------------------
(* The data stream as the recorded symbols define it. *)

\* data bit i of raw symbol stream s (the symbol before the first is 0)
DataBit(s, i) ==
    IF i < 1 THEN 0
    ELSE LET prev == IF i = 1 THEN 0 ELSE LowBit(s[i - 1])
         IN  IF LowBit(s[i]) # prev THEN 1 ELSE 0

RECURSIVE WindowFrom(_, _, _)
WindowFrom(s, k, j) ==
    IF j > 25 THEN 0
    ELSE DataBit(s, k - j) * Pow2(j) + WindowFrom(s, k, j + 1)

\* the 26 data bits ending at symbol k, as an integer
WindowAt(s, k) == WindowFrom(s, k, 0)

\* a work() call that was handed exactly one symbol
OneSymbol == bit_counter' = bit_counter + 1

----------------------------------------------------------------------------
(* C1: the decoder becomes SYNCED only on a bit whose window has the       *)
(* syndrome of C or C', 26 bits after a window with the syndrome of B,     *)
(* itself 26 bits after a window with the syndrome of A seen in SEARCH;    *)
(* and when the check 26 bits after A is not B, or the one 26 bits after B *)
(* is not C or C', the decoder is in SEARCH after that bit.                *)

\* where the acquisition stands, in terms of the recorded stream
AcquisitionTrail ==
    LET n == Len(fed)
    IN  /\ state = STATE_PRESYNC_B =>
             /\ presync_bit_count \in 0..25
             /\ syndrome(WindowAt(fed, n - presync_bit_count)) = OFFSET_A
        /\ state = STATE_PRESYNC_C =>
             /\ presync_bit_count \in 0..25
             /\ syndrome(WindowAt(fed, n - presync_bit_count)) = OFFSET_B
             /\ syndrome(WindowAt(fed, n - presync_bit_count - 26)) = OFFSET_A

LockStep ==
    LET n == Len(fed')
    IN  (state # STATE_SYNCED /\ state' = STATE_SYNCED) =>
          /\ n > 52
          /\ syndrome(WindowAt(fed', n)) \in {OFFSET_C, OFFSET_Cp}
          /\ syndrome(WindowAt(fed', n - 26)) = OFFSET_B
          /\ syndrome(WindowAt(fed', n - 52)) = OFFSET_A
          /\ WorkState(NewDecoder, SubSeq(fed', 1, n - 53)).state = STATE_SEARCH

FailedCheckStep ==
    LET syn == syndrome(WindowAt(fed', Len(fed')))
    IN  /\ (state = STATE_PRESYNC_B /\ presync_bit_count = 25 /\ syn # OFFSET_B)
             => state' = STATE_SEARCH
        /\ (state = STATE_PRESYNC_C /\ presync_bit_count = 25
              /\ syn \notin {OFFSET_C, OFFSET_Cp})
             => state' = STATE_SEARCH

C1_LockOnlyAfterABC ==
    /\ []AcquisitionTrail
    /\ [][OneSymbol => (LockStep /\ FailedCheckStep)]_vars

\* the decoder has just locked on C' after A and B, and elsewhere a check failed
C1_Witness ==
    /\ state = STATE_SYNCED
    /\ Len(fed) = 78
    /\ syndrome(WindowAt(fed, 78)) = OFFSET_Cp
    /\ syndrome(WindowAt(fed, 52)) = OFFSET_B
    /\ syndrome(WindowAt(fed, 26)) = OFFSET_A

----------------------------------------------------------------------------
(* C2: once SYNCED, a run of at most 4 corrupted blocks in a broadcast     *)
(* that is otherwise correctly encoded never sends the decoder back to     *)
(* SEARCH, and the 5th corrupted block of a run always does.               *)

C2_NoiseTolerance ==
    [][ /\ (state = STATE_SYNCED /\ state' = STATE_SEARCH) => bad_run >= 5
        /\ (/\ OneSymbol
            /\ state = STATE_SYNCED
            /\ presync_bit_count = 25
            /\ pending' = <<>>
            /\ bad_run = 5) => state' = STATE_SEARCH ]_vars

----------------------------------------------------------------------------
(* C10: in SYNCED, a 26-bit check whose window has the syndrome of the     *)
(* identity that follows the last one (B after A, C or C' after B, D after *)
(* C, A after D) hands the payload to process_block under that identity    *)
(* and sets the error counter to 0.                                        *)

\* the identities that follow the block in slot last (A=0, B=1, C/C'=2, D=3)
FollowingIds(last) ==
    IF last = 0 THEN {ID_B}
    ELSE IF last = 1 THEN {ID_C, ID_Cp}
    ELSE IF last = 2 THEN {ID_D}
    ELSE {ID_A}

\* the group assembler's fields after this step are those process_block(id, data_16) leaves
Dispatched(id, data_16) ==
    LET r == process_block(Self, id, data_16)
    IN  /\ group_data' = r.group_data
        /\ ps_name' = r.ps_name
        /\ pi_code' = r.pi_code
        /\ pi_code_counts' = r.pi_code_counts
        /\ events' = r.events

C10_MatchDispatches ==
    [][ (OneSymbol /\ state = STATE_SYNCED /\ presync_bit_count = 25) =>
          \A id \in FollowingIds(last_block_id) :
             syndrome(bit_buffer') = OffsetOf(id) =>
                /\ error_counter' = 0
                /\ Dispatched(id, Shr(bit_buffer', 10)) ]_vars

----------------------------------------------------------------------------
(* A broadcast of one group of another type, on which the decoder locks,   *)
(* then four groups of type 0 that spell a station name, segment by        *)
(* segment.                                                                *)

\* "TESTFM  "
TestName == <<84, 69, 83, 84, 70, 77, 32, 32>>

\* block B of group type t (bits 15..11) and segment seg (bits 1..0)
BPayload(t, seg) == t * 2048 + seg

NameGroup(seg) ==
    << BlockA,
       Block(ID_B, BPayload(0, seg)),
       BlockC,
       Block(ID_D, TestName[2 * seg + 1] * 256 + TestName[2 * seg + 2]) >>

NameScript ==
    << BlockA, Block(ID_B, BPayload(1, 0)), BlockC, BlockD >>
      \o NameGroup(0) \o NameGroup(1) \o NameGroup(2) \o NameGroup(3)

TransmitScript ==
    /\ sent < Len(NameScript)
    /\ Transmit(NameScript[sent + 1])

NextName ==
    \/ TransmitScript
    \/ \E n \in 0..MaxBatch : Work(n)

SpecName == Init /\ [][NextName]_vars

IsNameEvent(e) == e.type = "StationNameUpdated"
IsPIEvent(e) == e.type = "PIConfirmed"

(* C3: fed through work(), the decoder having locked, four groups A,B,C,D  *)
(* of type 0 with segments 0,1,2,3 whose D blocks carry an 8-character     *)
(* name make it emit StationNameUpdated with that name exactly once, at    *)
(* the D block of the segment-3 group.                                     *)
C3_NameEmittedOnce ==
    LET done == sent = Len(NameScript) /\ pending = <<>>
    IN  /\ done => SelectSeq(events, IsNameEvent) = <<StationNameUpdated(TestName)>>
        /\ ~done => SelectSeq(events, IsNameEvent) = <<>>

----------------------------------------------------------------------------
(* Blocks handed straight to process_block, in any order.                  *)

MaxCalls == 5       \* process_block calls in one behaviour

PIValues == {0, PI_TEST, 65535}

\* the two bytes of a D block
Chars(char1, char2) == char1 * 256 + char2

GroupInputs ==
    {Block(ID_A, p) : p \in PIValues}
      \cup {Block(ID_B, BPayload(0, seg)) : seg \in {0, 3}}
      \cup {Block(ID_B, BPayload(1, 3)), BlockC}
      \cup {Block(ID_D, Chars(70, 77)), Block(ID_D, Chars(10, 65)),
            Block(ID_D, Chars(31, 32)), Block(ID_D, Chars(126, 127))}

\* process_block(b.block_id, b.data_16) called on the decoder
Handle(b) ==
    /\ sent < MaxCalls
    /\ Install(process_block(Self, b.block_id, b.data_16))
    /\ block' = b
    /\ sent' = sent + 1
    /\ UNCHANGED <<pending, fed, tx_last, bad_run>>

OnBlock(b) == Handle(b) /\ UNCHANGED handled

\* the same call, the block handed over being recorded
OnBlockLogged(b) == Handle(b) /\ handled' = Append(handled, b)

NextGroup == \E b \in GroupInputs : OnBlock(b)

SpecGroup == Init /\ [][NextGroup]_vars

\* this step is process_block(id, ...)
Handles(id) == sent' = sent + 1 /\ block'.block_id = id

(* C4: on a fresh decoder, for every PI value p, 0 included, the third of  *)
(* three block-A dispatches of p makes p the confirmed PI and emits        *)
(* PIConfirmed(p); the first and the second emit nothing.                  *)
C4_ThirdAConfirms ==
    [][ Handles(ID_A) =>
          LET p == block'.data_16
          IN  /\ pi_code_counts = DictSet(EmptyDict, p, 2) =>
                   /\ pi_code' = p
                   /\ events' = Append(events, PIConfirmed(p))
              /\ (pi_code_counts = EmptyDict \/ pi_code_counts = DictSet(EmptyDict, p, 1)) =>
                   events' = events ]_vars

(* C4 as amended: the same for every p other than 0; for p = 0, the value  *)
(* pi_code starts with, 0 is the confirmed PI after the third dispatch and *)
(* no PIConfirmed is emitted at any of the three.                          *)
C4_ThirdAConfirmsNonzero ==
    [][ Handles(ID_A) =>
          LET p == block'.data_16
          IN  /\ pi_code_counts = DictSet(EmptyDict, p, 2) =>
                   /\ pi_code' = p
                   /\ events' = IF p # 0 THEN Append(events, PIConfirmed(p))
                                ELSE events
              /\ (pi_code_counts = EmptyDict \/ pi_code_counts = DictSet(EmptyDict, p, 1)) =>
                   /\ events' = events
                   /\ pi_code' = pi_code ]_vars

\* the third dispatch of 0x1234 in a row has just confirmed it
C4_Witness ==
    /\ sent = 3
    /\ block = Block(ID_A, PI_TEST)
    /\ pi_code = PI_TEST
    /\ events = <<PIConfirmed(PI_TEST)>>

(* C6: a D block of a group of type 0 with segment s writes its high byte  *)
(* to slot 2s and its low byte to slot 2s+1 exactly when the byte is in    *)
(* 32..126; every other slot, and the slot of a byte outside that range,   *)
(* keeps its prior value.                                                  *)
C6_PrintableBytesOnly ==
    [][ (/\ Handles(ID_D)
         /\ "type" \in DOMAIN group_data
         /\ group_data["type"] = 0) =>
          LET s  == group_data["B"] % 4
              hi == block'.data_16 \div 256
              lo == block'.data_16 % 256
          IN  \A i \in 1..8 :
                ps_name'[i] = IF i = 2 * s + 1 /\ hi \in 32..126 THEN hi
                              ELSE IF i = 2 * s + 2 /\ lo \in 32..126 THEN lo
                              ELSE ps_name[i] ]_vars

\* byte 10 has left 'F' in its slot while 'A' replaced 'M' beside it, the
\* other six slots blank
C6_Witness ==
    /\ block = Block(ID_D, Chars(10, 65))
    /\ "type" \in DOMAIN group_data
    /\ group_data["type"] = 0
    /\ group_data["B"] % 4 = 3
    /\ ps_name = <<32, 32, 32, 32, 32, 32, 70, 65>>

----------------------------------------------------------------------------
(* An idle input: nothing but zero symbols.                                *)

MaxIdleBlocks == 5      \* runs of 26 zero symbols the upstream produces

TransmitIdle ==
    /\ sent < MaxIdleBlocks
    /\ Send(NoBlock, 0)

NextIdle ==
    \/ TransmitIdle
    \/ \E n \in 0..MaxBatch : Work(n)

SpecIdle == Init /\ [][NextIdle]_vars

(* C5: a fresh decoder fed only zero symbols, in any batches, is in SEARCH *)
(* after every bit and emits nothing: the window stays 0, its syndrome is  *)
(* 0, and 0 is none of the five constants.                                 *)
C5_ZerosNeverSync ==
    /\ state = STATE_SEARCH
    /\ events = <<>>
    /\ bit_buffer = 0
    /\ syndrome(bit_buffer) = 0
    /\ 0 \notin OffsetConstants

\* more than a hundred zero symbols have gone through work()
C5_Witness ==
    /\ bit_counter > 100
    /\ pending = <<>>
    /\ state = STATE_SEARCH
    /\ events = <<>>

----------------------------------------------------------------------------
(* A broadcast encoded as the RDS standard defines it: the checkword is    *)
(* the remainder of payload * x^10 modulo the generator polynomial, XORed  *)
(* with the offset word of the block's identity.                           *)

MaxStdBlocks == 2

\* x^10 + x^8 + x^7 + x^5 + x^4 + x^3 + 1
Generator == Pow2(10) + Pow2(8) + Pow2(7) + Pow2(5) + Pow2(4) + Pow2(3) + 1

\* v modulo the generator, v of degree at most i
RECURSIVE PolyMod(_, _)
PolyMod(v, i) ==
    IF i < 10 THEN v
    ELSE IF BitAt(v, i) = 1 THEN PolyMod(Xor(v, Generator * Pow2(i - 10)), i - 1)
    ELSE PolyMod(v, i - 1)

\* the standard's offset words: 0x0FC, 0x198, 0x168, 0x350, 0x1B4
StdOffsetWord(id) ==
    IF id = ID_A THEN 252
    ELSE IF id = ID_B THEN 408
    ELSE IF id = ID_C THEN 360
    ELSE IF id = ID_Cp THEN 848
    ELSE 436

StdEncode(id, data_16) ==
    data_16 * Pow2(10) + Xor(PolyMod(data_16 * Pow2(10), 25), StdOffsetWord(id))

StdAlphabet ==
    {Block(id, p) : id \in {ID_A, ID_B, ID_C, ID_Cp, ID_D}, p \in PIValues}

TransmitStandard ==
    /\ sent < MaxStdBlocks
    /\ \E b \in StdAlphabet : Send(b, StdEncode(b.block_id, b.data_16))

NextStandard ==
    \/ TransmitStandard
    \/ \E n \in 0..MaxBatch : Work(n)

SpecStandard == Init /\ [][NextStandard]_vars

(* C7: for every payload and identity, the 26-bit block with the standard  *)
(* RDS checkword for that identity has syndrome() equal to the constant    *)
(* the decoder compares against for that identity.                         *)
C7_StandardBlockClassified ==
    block # NoBlock =>
       syndrome(StdEncode(block.block_id, block.data_16)) = OffsetOf(block.block_id)

----------------------------------------------------------------------------
(* Arbitrary byte symbols, one at a time, every symbol recorded; short     *)
(* enough for the 26-bit window to hold the whole decoded stream.          *)

MaxSymbols == 5

\* np.byte samples, not only 0 and 1
SymbolValues == {-1, 0, 1, 2}

Emit(sym) ==
    /\ Len(fed) + Len(pending) < MaxSymbols
    /\ pending' = Append(pending, sym)
    /\ UNCHANGED <<decoder_vars, fed, tx_last, sent, block, bad_run, handled>>

NextSymbols ==
    \/ \E sym \in SymbolValues : Emit(sym)
    \/ \E n \in 0..MaxBatch : WorkLogged(n)

SpecSymbols == Init /\ [][NextSymbols]_vars

\* the data bits the decoder has produced, oldest first
DecodedStream == [i \in 1..Len(fed) |-> BitAt(bit_buffer, Len(fed) - i)]

\* the low bits of the symbols handed over
LowBits(s) == [i \in 1..Len(s) |-> LowBit(s[i])]

(* C8: data bit i is the low bit of symbol i XOR the low bit of symbol     *)
(* i-1 (0 before the first), and differentially re-encoding the decoded    *)
(* stream from reference 0 gives back the symbols' low bits: the raw       *)
(* stream itself when every symbol is 0 or 1.                              *)
C8_DifferentialRoundTrip ==
    /\ \A i \in 1..Len(fed) : DecodedStream[i] = DataBit(fed, i)
    /\ DiffEncode(DecodedStream, 0) = LowBits(fed)
    /\ (\A i \in 1..Len(fed) : fed[i] \in {0, 1}) => DiffEncode(DecodedStream, 0) = fed
    /\ last_bit = IF fed = <<>> THEN 0 ELSE LowBit(fed[Len(fed)])

\* 1,0,0,1,1 decoded to 1,1,0,1,0
C8_Witness ==
    /\ fed = <<1, 0, 0, 1, 1>>
    /\ DecodedStream = <<1, 1, 0, 1, 0>>

----------------------------------------------------------------------------
(* A whole stream waiting upstream, handed over in batches of any of the   *)
(* lengths 0..MaxBatch and LongBatch, every symbol recorded.               *)

LongBatch == 30     \* a batch longer than a block

\* the raw symbols of a sequence of blocks, from reference symbol ref
RECURSIVE StreamOf(_, _)
StreamOf(blocks, ref) ==
    IF blocks = <<>> THEN <<>>
    ELSE LET syms == DiffEncode(WordBits(Word(Head(blocks))), ref)
         IN  syms \o StreamOf(Tail(blocks), syms[26])

BatchScripts ==
    { <<BlockA, BlockB, BlockC, BlockD, BlockA, BlockB>>,
      <<BlockA, Hit(BlockB), BlockA, BlockB, BlockCp, BlockA>>,
      <<BlockA, BlockB, BlockC, Hit(BlockD), Hit(BlockA), Hit(BlockB),
        Hit(BlockC), Hit(BlockD)>> }

BatchStreams == {StreamOf(script, 0) : script \in BatchScripts}

InitBatch ==
    /\ Fresh
    /\ pending \in BatchStreams
    /\ fed = <<>>
    /\ tx_last = pending[Len(pending)]
    /\ sent = Len(pending) \div 26
    /\ block = NoBlock
    /\ bad_run = 0
    /\ handled = <<>>

NextBatch == \E n \in (0..MaxBatch) \cup {LongBatch} : WorkLogged(n)

SpecBatch == InitBatch /\ [][NextBatch]_vars

(* C9: every work() call consumes its whole batch, and the decoder's state *)
(* and the events emitted are those of one work() call on a fresh decoder  *)
(* with all symbols fed so far, however they were split into batches.      *)
C9_BatchSplitIrrelevant ==
    /\ fed \o pending \in BatchStreams
    /\ Self = WorkState(NewDecoder, fed)

\* a stream consumed to its end, the decoder having locked on the way
C9_Witness ==
    /\ pending = <<>>
    /\ Len(fed) = 156
    /\ state = STATE_SYNCED
    /\ pi_code_counts = DictSet(EmptyDict, PI_TEST, 2)

----------------------------------------------------------------------------
(* The 26-bit check of SYNCED, in terms of the slots A=0, B=1, C/C'=2, D=3 *)
(* of the cycle.                                                           *)

\* this step is the check at the 26th bit after the previous block
SyncedCheck == OneSymbol /\ state = STATE_SYNCED /\ presync_bit_count = 25

\* the slot checked at this step
ExpectedSlot == (last_block_id + 1) % 4

\* the syndromes that identify the block of a slot
SlotSyndromes(slot) ==
    IF slot = 0 THEN {OFFSET_A}
    ELSE IF slot = 1 THEN {OFFSET_B}
    ELSE IF slot = 2 THEN {OFFSET_C, OFFSET_Cp}
    ELSE {OFFSET_D}

\* the window of this check identifies the block of the expected slot
SlotMatch == syndrome(bit_buffer') \in SlotSyndromes(ExpectedSlot)

(* C11: at every 26-bit check in SYNCED the last identity becomes the slot *)
(* that was expected, match or not, and the check counts as a match (the   *)
(* error counter is 0 afterwards) exactly when the window's syndrome is    *)
(* that of the expected slot's identity: A, B, D their own, C or C' in the *)
(* C slot.                                                                 *)
C11_SlotAdvances ==
    [][ SyncedCheck =>
          /\ last_block_id' = ExpectedSlot
          /\ (error_counter' = 0) <=> SlotMatch ]_vars

\* nothing was handed to process_block at this step
NothingDispatched ==
    /\ events' = events
    /\ group_data' = group_data
    /\ pi_code_counts' = pi_code_counts
    /\ pi_code' = pi_code

(* C12: at a 26-bit check in SYNCED whose window does not have the         *)
(* syndrome of the expected slot's identity, the error counter grows by    *)
(* exactly 1, no event is emitted, the group context, the PI table and the *)
(* confirmed PI keep their values, and so does the name buffer unless the  *)
(* error counter is 5 afterwards.                                          *)
C12_MismatchCountsOnce ==
    [][ (SyncedCheck /\ ~SlotMatch) =>
          /\ error_counter' = error_counter + 1
          /\ NothingDispatched
          /\ (error_counter' # MAX_ERRORS => ps_name' = ps_name) ]_vars

----------------------------------------------------------------------------
(* A broadcast that is lost and found again: lock, five corrupted blocks,  *)
(* lock again, four corrupted blocks. While the name buffer is blank, a D  *)
(* block of the current group may be handed to process_block directly.     *)

LossScript ==
    << BlockA, BlockB, BlockC,
       Hit(BlockD), Hit(BlockA), Hit(BlockB), Hit(BlockC), Hit(BlockD),
       BlockA, BlockB, BlockC,
       Hit(BlockD), Hit(BlockA), Hit(BlockB), Hit(BlockC) >>

Blank == [i \in 1..8 |-> SPACE]

TransmitLoss ==
    /\ sent < Len(LossScript)
    /\ Transmit(LossScript[sent + 1])

\* process_block(4, data_16) called on the decoder
NameBlock ==
    /\ ps_name = Blank
    /\ "type" \in DOMAIN group_data
    /\ Install(process_block(Self, ID_D, D_TEST))
    /\ UNCHANGED <<pending, fed, tx_last, sent, block, bad_run, handled>>

NextLoss ==
    \/ TransmitLoss
    \/ NameBlock
    \/ \E n \in 0..MaxBatch : Work(n)

SpecLoss == Init /\ [][NextLoss]_vars

(* C13: a 26-bit check in SYNCED that brings the error counter to 5 puts   *)
(* the decoder in SEARCH with all 8 name slots blank after that same bit,  *)
(* SYNCED is left only that way, at the fifth mismatch in a row, and every *)
(* entry into SYNCED, the first and those after a loss, sets the error     *)
(* counter to 0.                                                           *)
C13_LossAndReacquisition ==
    [][ /\ (SyncedCheck /\ error_counter' >= MAX_ERRORS) =>
              (state' = STATE_SEARCH /\ ps_name' = Blank)
        /\ (OneSymbol /\ state = STATE_SYNCED /\ state' # STATE_SYNCED) =>
              (error_counter = MAX_ERRORS - 1 /\ error_counter' = MAX_ERRORS
                 /\ state' = STATE_SEARCH)
        /\ (OneSymbol /\ state # STATE_SYNCED /\ state' = STATE_SYNCED) =>
              error_counter' = 0 ]_vars

\* locked again after a loss that blanked a name which had been written,
\* and four mismatches later still locked
C13_Witness ==
    /\ sent = Len(LossScript)
    /\ pending = <<>>
    /\ state = STATE_SYNCED
    /\ error_counter = MAX_ERRORS - 1
    /\ ps_name = Blank
    /\ events = <<StationNameUpdated([Blank EXCEPT ![7] = 70, ![8] = 77])>>

----------------------------------------------------------------------------
(* The PI debounce, on blocks handed straight to process_block.            *)

\* how often p has been counted so far
CountOf(p) == IF p \in DOMAIN pi_code_counts THEN pi_code_counts[p] ELSE 0

(* C14: after a block A whose payload's counter exceeds 2 with this        *)
(* observation, the payload is the confirmed PI and the only key of the    *)
(* PI table, whether or not it was the confirmed PI already.               *)
C14_CommitLeavesOneCandidate ==
    [][ (Handles(ID_A) /\ CountOf(block'.data_16) + 1 > 2) =>
          /\ pi_code' = block'.data_16
          /\ DOMAIN pi_code_counts' = {block'.data_16} ]_vars

----------------------------------------------------------------------------
(* Blocks handed straight to process_block, every one recorded.            *)

PI_OTHER == 255 * 256 + 255     \* 0xFFFF

HistoryInputs ==
    {BlockA, Block(ID_A, PI_OTHER), Block(ID_B, BPayload(0, 3)),
     Block(ID_B, BPayload(1, 3)), BlockD}

NextHistory == \E b \in HistoryInputs : OnBlockLogged(b)

SpecHistory == Init /\ [][NextHistory]_vars

IsBlockA(b) == b.block_id = ID_A

\* the payloads of the block-A dispatches in a history, oldest first
PIHistory(h) ==
    LET a == SelectSeq(h, IsBlockA)
    IN  [i \in 1..Len(a) |-> a[i].data_16]

\* the last three entries of s are all p
LastThreeAre(s, p) ==
    /\ Len(s) >= 3
    /\ \A i \in (Len(s) - 2)..Len(s) : s[i] = p

(* C15: a block A changes the confirmed PI, or emits PIConfirmed, only if  *)
(* its payload was also the payload of the two block-A dispatches before   *)
(* it; a value interleaved with another one is never committed.            *)
C15_ConsecutiveObservations ==
    [][ (Handles(ID_A) /\ (pi_code' # pi_code \/ events' # events)) =>
          LastThreeAre(PIHistory(handled'), block'.data_16) ]_vars

\* the position of the latest block of identity id in a history, 0 for none
LastIndex(h, id) ==
    LET at == {i \in 1..Len(h) : h[i].block_id = id}
    IN  IF at = {} THEN 0 ELSE CHOOSE i \in at : \A j \in at : j <= i

\* a block B has been handled since the latest block A
TypeOfThisGroup(h) == LastIndex(h, ID_B) > LastIndex(h, ID_A)

(* C16: a D block changes the name buffer or emits an event only if a      *)
(* block B was handled after the most recent block A; after a block A with *)
(* no block B since, a D block changes nothing.                            *)
C16_TypeFromSameGroup ==
    [][ (Handles(ID_D) /\ ~TypeOfThisGroup(handled)) =>
          (ps_name' = ps_name /\ events' = events) ]_vars

----------------------------------------------------------------------------
(* Blocks B of several group types and of every segment, and D blocks,     *)
(* handed straight to process_block.                                       *)

\* group types 0A, 0B and 2A
SegmentTypes == {0, 1, 4}

SegmentInputs ==
    {Block(ID_B, BPayload(t, seg)) : t \in SegmentTypes, seg \in 0..3}
      \cup {BlockA, BlockD, Block(ID_D, Chars(10, 65))}

NextSegments == \E b \in SegmentInputs : OnBlock(b)

SpecSegments == Init /\ [][NextSegments]_vars

\* a group type is stored and it is 0
TypeZero == "type" \in DOMAIN group_data /\ group_data["type"] = 0

----------------------------------------------------------------------------
(* C18: a work() call that starts with the decoder not SYNCED hands no     *)
(* payload to the group assembler: the PI table, the confirmed PI and the  *)
(* group context keep their values and no event is emitted, so a decoder   *)
(* that never locked has emitted no PIConfirmed.                           *)
C18_NoDispatchBeforeLock ==
    [][ (OneSymbol /\ state # STATE_SYNCED) => NothingDispatched ]_vars

----------------------------------------------------------------------------
(* C19: after every work() call the window is a 26-bit value; outside      *)
(* SEARCH the position counter is within 0..25; in SYNCED the error        *)
(* counter is within 0..4 and the last identity is one of the slots 0..3.  *)
C19_Ranges ==
    /\ bit_buffer \in 0..BUF_MASK
    /\ BUF_MASK + 1 = Pow2(26)
    /\ state \in {STATE_PRESYNC_B, STATE_PRESYNC_C, STATE_SYNCED} =>
          presync_bit_count \in 0..25
    /\ state = STATE_SYNCED =>
          /\ error_counter \in 0..(MAX_ERRORS - 1)
          /\ last_block_id \in 0..3

\* one bit before a check in SYNCED, four mismatches counted, the C slot
\* last, the window holding 24 significant bits
C19_Witness ==
    /\ state = STATE_SYNCED
    /\ presync_bit_count = 25
    /\ error_counter = MAX_ERRORS - 1
    /\ last_block_id = 2
    /\ bit_buffer >= Pow2(23)

============================================================================
